---- MODULE Spec2Model ----
(***************************************************************************)
(* The asynchronous job pipeline of parkhi-ai-backend: the job record      *)
(* store, the processor services' active-set (running_jobs), the           *)
(* background threads that run VideoWorkflow.process_video /               *)
(* process_content, the job endpoints of api/v1/endpoints/videos.py and    *)
(* the events broadcast to the notification hub.                           *)
(*                                                                         *)
(* Granularity.  Every store operation (a repository method, a mark_job_*  *)
(* or update_job_* of the workflow, an endpoint's get/check/commit) is one *)
(* atomic step, following the store's transactional commit.  The           *)
(* membership test and the insertion of process_*_background are separate  *)
(* steps: they are separate statements run by concurrent threads that      *)
(* share running_jobs without a lock.  A write that is followed by an      *)
(* event is two steps: the commit, then the awaited broadcast_to_job.      *)
(* An external call of a stage (download, transcription, parsing) either   *)
(* fails or succeeds and is taken together with the store write that       *)
(* follows it.  The notification hub's operations are atomic.              *)
(***************************************************************************)
EXTENDS Integers, FiniteSets, Sequences, TLC

\* Bounds of the model.
MaxJobs == 1        \* job rows ever created
MaxThreads == 2     \* background threads ever spawned
MaxConns == 2       \* websocket connections open at the same time

\* settings.max_concurrent_jobs, the max_workers of the services' executor
MaxConcurrentJobs == 1

ThreadIds == 1..MaxThreads
Conns == 1..MaxConns
Urls == {"u1", "u2"}
FileIds == {"f1", "f2"}

NoJob == [kind |-> "absent"]   \* query(...).first() returns None
NoUrl == "none"     \* a content job has no video_url

\* Progress milestones emitted by the shared analyzer and question generator
\* stages (their sources are not part of this tree; each emits zero or more
\* increasing values below 100).
AnalyzerValues == {60, 80}
GeneratorValues == {90}

VARIABLES
    jobs,           \* job record store: id -> row or NoJob
    last_id,        \* autoincrement primary key
    running_jobs,   \* the processor service's active-set
    threads,        \* background threads: position and locals
    broadcasts,     \* per job id: events handed to websocket_manager.broadcast_to_job
    hub,            \* websocket_manager: its registries and its last delivery
    sockets,        \* per connection: is a websocket endpoint handler serving it?
    whisper         \* VideoExtractorAgent.whisper_model and the loads made so far

vars == <<jobs, last_id, running_jobs, threads, broadcasts, hub, sockets, whisper>>

\* the primary keys the store has room for: MaxJobs of them, and one more
\* where two jobs run side by side (InitPair)
JobIds == DOMAIN jobs

----------------------------------------------------------------------------
\* Job rows

\* VideoJobRepository.create_job
NewVideoJob(u) ==
    [kind |-> "video", video_url |-> u, status |-> "pending", progress |-> 0,
     error_message |-> "null", completed_at |-> "null",
     video_title |-> "null", video_duration |-> "null",
     transcript |-> "null", summary |-> "null", questions |-> "null",
     file_ids |-> {}]

\* ContentJobRepository.create_job
NewContentJob ==
    [kind |-> "content", video_url |-> NoUrl, status |-> "pending", progress |-> 0,
     error_message |-> "null", completed_at |-> "null",
     video_title |-> "null", video_duration |-> "null",
     transcript |-> "null", summary |-> "null", questions |-> "null",
     file_ids |-> {}]

Exists(j) == jobs[j] # NoJob

\* find_by_url with a filter on the jobs that have not completed yet
FindByUrl_ActiveOnly(u) ==
    {j \in JobIds : /\ Exists(j)
                    /\ jobs[j].video_url = u
                    /\ jobs[j].status \in {"pending", "processing"}}

\* VideoJobRepository.find_by_url: the rows with this url, of any status
FindByUrl(u) == {j \in JobIds : Exists(j) /\ jobs[j].video_url = u}

\* ".order_by(desc(VideoJob.created_at)).first()": the most recent of them
MostRecent(S) == CHOOSE j \in S : \A k \in S : k <= j

TerminalForCancel == {"completed", "failed", "cancelled"}

----------------------------------------------------------------------------
\* Threads

\* no payload
NoEvent == [type |-> "none", progress |-> -1]

\* bc: the payload the thread has committed the write of and is about to
\* hand to websocket_manager.broadcast_to_job
\* marks: the mark_job_completed / mark_job_failed calls of this execution
\* that wrote the row
Unborn == [pc |-> "unborn", job |-> 0, kind |-> "none", err |-> "none",
           lastp |-> -1, sub |-> 0, tmp |-> FALSE, bc |-> NoEvent, marks |-> 0,
           data_temp_dir |-> FALSE]

\* a thread that has ended
Finished == [Unborn EXCEPT !.pc = "done"]

\* the next thread object: threading.Thread(target=run_in_thread)
FreeThreads == {t \in ThreadIds : threads[t].pc = "unborn"}
NextThread == CHOOSE t \in FreeThreads : \A u \in FreeThreads : t <= u

\* the submission running the membership test itself before it returns
Spawn_ChecksInline(j, k) ==
    [threads EXCEPT ![NextThread] =
        IF j \in running_jobs THEN Finished
        ELSE [Unborn EXCEPT !.pc = "add", !.job = j, !.kind = k]]

\* process_video_background_sync / process_content_background_sync:
\* threading.Thread(target=run_in_thread, daemon=True).start()
Spawn(j, k) ==
    [threads EXCEPT ![NextThread] = [Unborn EXCEPT !.pc = "check", !.job = j, !.kind = k]]

\* positions between the insertion into running_jobs and the end of the
\* workflow call
WorkflowPcs == {"started", "x10", "xdata", "x30", "x40", "xtrans", "xload", "x50", "xfail",
                "c10", "cparse", "c40", "c70", "analyze", "generate",
                "complete", "wfail"}

InWorkflow(t) == threads[t].pc \in WorkflowPcs \/ threads[t].bc # NoEvent

\* positions inside a stage's run: the extractor, the analyzer, the generator
StagePcs == {"x10", "xdata", "x30", "x40", "xtrans", "xload", "x50", "xfail",
             "analyze", "generate"}

----------------------------------------------------------------------------
\* Notification hub, as seen by the pipeline

\* websocket_manager.broadcast_to_job(job_id, payload)
Broadcast(j, type, p) ==
    [broadcasts EXCEPT ![j] = [last |-> [type |-> type, progress |-> p],
                               completions |-> @.completions + (IF type = "completion" THEN 1 ELSE 0)]]

\* websocket_manager: the connections registered under a user, the
\* subscribers of each job id, and the connections the last broadcast was
\* sent to successfully
EmptyHub ==
    [user_connections |-> {},
     job_subscriptions |-> [j \in JobIds |-> {}],
     delivered |-> {}]

\* websocket_manager.connect_user(websocket, user_id)
ConnectUser(h, c) == [h EXCEPT !.user_connections = @ \cup {c}]

\* websocket_manager.subscribe_to_job(websocket, job_id, user_id)
SubscribeToJob(h, c, j) == [h EXCEPT !.job_subscriptions[j] = @ \cup {c}]

\* disconnect_user that forgets the job subscriptions
DisconnectUser_RegistryOnly(h, c) == [h EXCEPT !.user_connections = @ \ {c}]

\* websocket_manager.disconnect_user(websocket)
DisconnectUser(h, c) ==
    [h EXCEPT !.user_connections = @ \ {c},
              !.job_subscriptions = [j \in JobIds |-> @[j] \ {c}]]

\* the connections of F removed from the registries
DisconnectAll(h, F) ==
    [h EXCEPT !.user_connections = @ \ F,
              !.job_subscriptions = [j \in JobIds |-> @[j] \ F]]

\* broadcast_to_job that gives up at the first send that fails
BroadcastToJob_AbortsOnFailure(h, j, F) ==
    [DisconnectAll(h, F) EXCEPT
        !.delivered = IF F = {} THEN h.job_subscriptions[j] ELSE {}]

\* websocket_manager.broadcast_to_job(job_id, payload), where the sends to
\* the subscribers in F fail: the others receive the payload, those of F
\* are disconnected
BroadcastToJob(h, j, F) ==
    [DisconnectAll(h, F) EXCEPT !.delivered = h.job_subscriptions[j] \ F]

----------------------------------------------------------------------------
\* The speech-to-text model of the shared VideoExtractorAgent.  A handle is
\* named by the number of the load that made it; 0 is None.

\* VideoExtractorAgent.__init__: "self.whisper_model = None"
NotLoaded == [model |-> 0, loads |-> 0]

\* "self.whisper_model = whisper.load_model(settings.whisper_model)"
LoadModel(w) == [model |-> w.loads + 1, loads |-> w.loads + 1]

\* load_whisper_model run without interruption:
\* "if self.whisper_model is None: ...; return self.whisper_model"
LoadWhisperModel(w) == IF w.model = 0 THEN LoadModel(w) ELSE w

----------------------------------------------------------------------------
Init ==
    /\ jobs = [j \in 1..MaxJobs |-> NoJob]
    /\ last_id = 0
    /\ running_jobs = {}
    /\ threads = [t \in ThreadIds |-> Unborn]
    /\ broadcasts = [j \in JobIds |-> [last |-> NoEvent, completions |-> 0]]
    /\ hub = EmptyHub
    /\ sockets = [c \in Conns |-> "closed"]
    /\ whisper = NotLoaded

----------------------------------------------------------------------------
\* Store writes of the pipeline.  Each returns the store after the commit;
\* a missing row ("if job:") leaves the store as it is.

\* mark_job_started without "job.status = 'processing'"
MarkJobStarted_KeepsStatus(j) ==
    IF Exists(j) THEN [jobs EXCEPT ![j].progress = 0] ELSE jobs

\* VideoWorkflow.mark_job_started
MarkJobStarted(j) ==
    IF Exists(j)
    THEN [jobs EXCEPT ![j].status = "processing", ![j].progress = 0]
    ELSE jobs

\* mark_job_completed without "job.progress = 100.0"
MarkJobCompleted_KeepsProgress(j) ==
    IF Exists(j)
    THEN [jobs EXCEPT ![j].status = "completed", ![j].completed_at = "set"]
    ELSE jobs

\* VideoWorkflow.mark_job_completed (the store part)
MarkJobCompleted(j) ==
    IF Exists(j)
    THEN [jobs EXCEPT ![j].status = "completed", ![j].completed_at = "set",
                      ![j].progress = 100]
    ELSE jobs

\* mark_job_failed that also puts the progress back to 0
MarkJobFailed_ResetsProgress(j, msg) ==
    IF Exists(j)
    THEN [jobs EXCEPT ![j].status = "failed", ![j].completed_at = "set",
                      ![j].error_message = msg, ![j].progress = 0]
    ELSE jobs

\* mark_job_failed without "job.completed_at = datetime.now()"
MarkJobFailed_NoCompletedAt(j, msg) ==
    IF Exists(j)
    THEN [jobs EXCEPT ![j].status = "failed", ![j].error_message = msg]
    ELSE jobs

\* VideoWorkflow.mark_job_failed
MarkJobFailed(j, msg) ==
    IF Exists(j)
    THEN [jobs EXCEPT ![j].status = "failed", ![j].completed_at = "set",
                      ![j].error_message = msg]
    ELSE jobs

\* VideoJobRepository.mark_failed
RepoMarkFailed(j, msg) ==
    IF Exists(j)
    THEN [jobs EXCEPT ![j].status = "failed", ![j].error_message = msg,
                      ![j].completed_at = "set"]
    ELSE jobs

\* VideoWorkflow.update_job_progress (the store part)
UpdateJobProgress(j, p) ==
    IF Exists(j) THEN [jobs EXCEPT ![j].progress = p] ELSE jobs

\* VideoWorkflow.update_job_transcript followed by update_job_title
UpdateJobTranscriptAndTitle(j) ==
    IF Exists(j)
    THEN [jobs EXCEPT ![j].transcript = "set", ![j].video_title = "set"]
    ELSE jobs

\* VideoExtractorAgent.update_video_metadata
UpdateVideoMetadata(j) ==
    IF Exists(j)
    THEN [jobs EXCEPT ![j].video_title = "set", ![j].video_duration = "set"]
    ELSE jobs

\* VideoExtractorAgent.update_transcript
UpdateTranscript(j) ==
    IF Exists(j) THEN [jobs EXCEPT ![j].transcript = "set"] ELSE jobs

\* VideoTutorAgent.update_job_progress, inherited by the stages (store part)
AgentUpdateJobProgress(j, p) ==
    IF Exists(j) THEN [jobs EXCEPT ![j].progress = p] ELSE jobs

\* VideoTutorAgent.mark_job_failed, inherited by the stages
AgentMarkJobFailed(j, msg) ==
    IF Exists(j)
    THEN [jobs EXCEPT ![j].status = "failed", ![j].completed_at = "set",
                      ![j].error_message = msg]
    ELSE jobs

\* ContentAnalyzerAgent.run persisting its result
AnalyzerPersist(j) ==
    IF Exists(j) THEN [jobs EXCEPT ![j].summary = "set"] ELSE jobs

\* QuestionGeneratorAgent.run persisting its result
GeneratorPersist(j) ==
    IF Exists(j) THEN [jobs EXCEPT ![j].questions = "set"] ELSE jobs

\* f"Video extraction failed: {str(e)}"
ExtractionFailedMessage(e) ==
    IF e = "Failed to process video"
    THEN "Video extraction failed: Failed to process video"
    ELSE "Video extraction failed: Transcription failed"

----------------------------------------------------------------------------
\* Repository operations used by the endpoints

\* VideoJobRepository.reset_job_for_retry: the row it commits
VideoResetRow(r) ==
    [r EXCEPT !.status = "pending", !.progress = 0, !.error_message = "null",
              !.completed_at = "null", !.transcript = "null", !.summary = "null"]

\* reset_job_for_retry with "if job:" for "if job and job.status == FAILED"
VideoResetOk_AnyStatus(j) == Exists(j)

\* VideoJobRepository.reset_job_for_retry: does it reset (returns True)?
VideoResetOk(j) == Exists(j) /\ jobs[j].status = "failed"

\* ContentJobRepository.reset_job_for_retry: the row it commits
ContentResetRow(r) ==
    [r EXCEPT !.status = "pending", !.progress = 0, !.completed_at = "null",
              !.error_message = "null"]

\* ContentJobRepository.reset_job_for_retry: does it reset (returns True)?
ContentResetOk(j) == Exists(j) /\ jobs[j].status = "failed"

\* VideoProcessorService has no attribute process_video_async: evaluating
\* video_processor.process_video_async in retry_job raises AttributeError
HasProcessVideoAsync == FALSE

----------------------------------------------------------------------------
\* process_video_background / process_content_background, run by thread t

Job(t) == threads[t].job

\* "if job:" of a mark_job_* call of thread t: does the call write the row?
Marked(t) == threads[t].marks + (IF Exists(Job(t)) THEN 1 ELSE 0)

Goto(t, pc) == [threads EXCEPT ![t].pc = pc]

\* the membership test inside the try block, so that the early return runs
\* the finally clause
CheckRunning_ReturnRunsTheFinally(t) ==
    /\ threads[t].pc = "check"
    /\ IF Job(t) \in running_jobs
       THEN /\ threads' = [threads EXCEPT ![t] = Finished]
            /\ running_jobs' = running_jobs \ {Job(t)}
       ELSE /\ threads' = Goto(t, "add")
            /\ running_jobs' = running_jobs
    /\ UNCHANGED <<jobs, last_id, broadcasts, hub, sockets, whisper>>

\* "if job_id in self.running_jobs: return"
CheckRunning(t) ==
    /\ threads[t].pc = "check"
    /\ threads' = IF Job(t) \in running_jobs
                  THEN [threads EXCEPT ![t] = Finished]
                  ELSE Goto(t, "add")
    /\ UNCHANGED <<jobs, last_id, running_jobs, broadcasts, hub, sockets, whisper>>

\* "self.running_jobs.add(job_id)"
AddRunning(t) ==
    /\ threads[t].pc = "add"
    /\ running_jobs' = running_jobs \cup {Job(t)}
    /\ threads' = Goto(t, "started")
    /\ UNCHANGED <<jobs, last_id, broadcasts, hub, sockets, whisper>>

\* the discard as the last statement of the try block, not in a finally
DiscardRunning_OnlyWhenReturned(t) ==
    /\ threads[t].pc = "discard"
    /\ running_jobs' = IF threads[t].err = "none" THEN running_jobs \ {Job(t)}
                        ELSE running_jobs
    /\ threads' = [threads EXCEPT ![t] = Finished]
    /\ UNCHANGED <<jobs, last_id, broadcasts, hub, sockets, whisper>>

\* the finally clause emptying the set: "self.running_jobs.clear()"
DiscardRunning_ClearsTheSet(t) ==
    /\ threads[t].pc = "discard"
    /\ running_jobs' = {}
    /\ threads' = [threads EXCEPT ![t] = Finished]
    /\ UNCHANGED <<jobs, last_id, broadcasts, hub, sockets, whisper>>

\* "finally: self.running_jobs.discard(job_id)", then the thread ends
DiscardRunning(t) ==
    /\ threads[t].pc = "discard"
    /\ running_jobs' = running_jobs \ {Job(t)}
    /\ threads' = [threads EXCEPT ![t] = Finished]
    /\ UNCHANGED <<jobs, last_id, broadcasts, hub, sockets, whisper>>

\* is_job_running(job_id)
IsJobRunning(j) == j \in running_jobs

\* get_running_jobs_count()
GetRunningJobsCount == Cardinality(running_jobs)

----------------------------------------------------------------------------
\* VideoWorkflow.process_video / process_content

\* "await self.mark_job_started(job_id)"
WfStarted(t) ==
    /\ threads[t].pc = "started"
    /\ jobs' = MarkJobStarted(Job(t))
    /\ threads' = [threads EXCEPT ![t].pc = IF threads[t].kind = "video" THEN "x10" ELSE "c10",
                                  ![t].lastp = 0]
    /\ UNCHANGED <<last_id, running_jobs, broadcasts, hub, sockets, whisper>>

\* mark_job_started raises: its commit fails, "except: db.rollback(); raise"
WfStartedFails(t) ==
    /\ threads[t].pc = "started"
    /\ threads' = [threads EXCEPT ![t].pc = "wfail", ![t].err = "database error",
                                  ![t].lastp = 0]
    /\ UNCHANGED <<jobs, last_id, running_jobs, broadcasts, hub, sockets, whisper>>

\* a progress milestone of the workflow itself: update_job_progress(job_id, p)
WfProgress(t, at, p, next) ==
    /\ threads[t].pc = at
    /\ jobs' = UpdateJobProgress(Job(t), p)
    /\ threads' = [threads EXCEPT ![t].pc = next, ![t].lastp = p,
                                  ![t].bc = [type |-> "progress", progress |-> p]]
    /\ UNCHANGED <<last_id, running_jobs, broadcasts, hub, sockets, whisper>>

\* a progress milestone of a stage: self.update_job_progress(job_id, p)
AgentProgress(t, at, p, next) ==
    /\ threads[t].pc = at
    /\ jobs' = AgentUpdateJobProgress(Job(t), p)
    /\ threads' = [threads EXCEPT ![t].pc = next, ![t].lastp = p,
                                  ![t].bc = [type |-> "progress", progress |-> p]]
    /\ UNCHANGED <<last_id, running_jobs, broadcasts, hub, sockets, whisper>>

\* a step of the workflow that raises e: control goes to the handler at `to`
Raise(t, at, e, to) ==
    /\ threads[t].pc = at
    /\ threads' = [threads EXCEPT ![t].pc = to, ![t].err = e]
    /\ UNCHANGED <<jobs, last_id, running_jobs, broadcasts, hub, sockets, whisper>>

\* VideoExtractorAgent.run: mkdtemp, then the first milestone
Extract10(t) ==
    /\ threads[t].pc = "x10"
    /\ jobs' = AgentUpdateJobProgress(Job(t), 10)
    /\ threads' = [threads EXCEPT ![t].pc = "xdata", ![t].lastp = 10, ![t].tmp = TRUE,
                                  ![t].bc = [type |-> "progress", progress |-> 10]]
    /\ UNCHANGED <<last_id, running_jobs, broadcasts, hub, sockets, whisper>>

\* extract_video_data succeeds, then update_video_metadata
ExtractData(t) ==
    /\ threads[t].pc = "xdata"
    /\ jobs' = UpdateVideoMetadata(Job(t))
    /\ threads' = Goto(t, "x30")
    /\ UNCHANGED <<last_id, running_jobs, broadcasts, hub, sockets, whisper>>

\* extract_video_data raises ValueError("Failed to process video: ...")
ExtractDataFails(t) == Raise(t, "xdata", "Failed to process video", "xfail")

Extract30(t) == AgentProgress(t, "x30", 30, "x40")

Extract40(t) == AgentProgress(t, "x40", 40, "xtrans")

\* generate_transcript succeeds (load_whisper_model, transcribe), then
\* update_transcript
ExtractTranscript(t) ==
    /\ threads[t].pc = "xtrans"
    /\ whisper' = LoadWhisperModel(whisper)
    /\ jobs' = UpdateTranscript(Job(t))
    /\ threads' = Goto(t, "x50")
    /\ UNCHANGED <<last_id, running_jobs, broadcasts, hub, sockets>>

\* generate_transcript raises ValueError("Transcription failed: ..."): the
\* load fails, or transcribe fails after load_whisper_model has returned
ExtractTranscriptFails(t) ==
    /\ threads[t].pc = "xtrans"
    /\ whisper' \in {whisper, LoadWhisperModel(whisper)}
    /\ threads' = [threads EXCEPT ![t].pc = "xfail", ![t].err = "Transcription failed"]
    /\ UNCHANGED <<jobs, last_id, running_jobs, broadcasts, hub, sockets>>

\* load_whisper_model up to its test: another thread may run before the
\* load that follows "if self.whisper_model is None:"
WhisperSeenNone(t) ==
    /\ threads[t].pc = "xtrans"
    /\ threads[t].bc = NoEvent
    /\ whisper.model = 0
    /\ threads' = Goto(t, "xload")
    /\ UNCHANGED <<jobs, last_id, running_jobs, broadcasts, hub, sockets, whisper>>

\* the load and the assignment after the test found None, then transcribe
\* and update_transcript
WhisperLoaded(t) ==
    /\ threads[t].pc = "xload"
    /\ whisper' = LoadModel(whisper)
    /\ jobs' = UpdateTranscript(Job(t))
    /\ threads' = Goto(t, "x50")
    /\ UNCHANGED <<last_id, running_jobs, broadcasts, hub, sockets>>

\* the last milestone; data.update({..., "temp_dir": str(temp_dir)});
\* return data; finally: shutil.rmtree(temp_dir)
Extract50(t) ==
    /\ threads[t].pc = "x50"
    /\ jobs' = AgentUpdateJobProgress(Job(t), 50)
    /\ threads' = [threads EXCEPT ![t].pc = "analyze", ![t].lastp = 50, ![t].tmp = FALSE,
                                  ![t].data_temp_dir = TRUE,
                                  ![t].bc = [type |-> "progress", progress |-> 50]]
    /\ UNCHANGED <<last_id, running_jobs, broadcasts, hub, sockets, whisper>>

\* "except Exception as e: await self.mark_job_failed(...); raise" and the
\* finally clause of VideoExtractorAgent.run
ExtractFailed(t) ==
    /\ threads[t].pc = "xfail"
    /\ jobs' = AgentMarkJobFailed(Job(t), ExtractionFailedMessage(threads[t].err))
    /\ threads' = [threads EXCEPT ![t].pc = "wfail", ![t].tmp = FALSE,
                                  ![t].marks = Marked(t)]
    /\ UNCHANGED <<last_id, running_jobs, broadcasts, hub, sockets, whisper>>

----------------------------------------------------------------------------
\* process_content: Stage 1 (parser), and the milestones around the stages

Content10(t) == WfProgress(t, "c10", 10, "cparse")

\* parser_factory.get_parser returns None
ParseNoParser(t) == Raise(t, "cparse", "No parser available for input type", "wfail")

\* an unsuccessful parse result that is logged and not raised
ParseFails_GoesOn(t) == Raise(t, "cparse", "Failed to parse content", "c40")

\* parse_result.success is False
ParseFails(t) == Raise(t, "cparse", "Failed to parse content", "wfail")

\* the parse succeeds: update_job_transcript, update_job_title (which
\* returns at once when the title is empty)
ParseContent(t, hasTitle) ==
    /\ threads[t].pc = "cparse"
    /\ jobs' = IF hasTitle THEN UpdateJobTranscriptAndTitle(Job(t))
                           ELSE UpdateTranscript(Job(t))
    /\ threads' = Goto(t, "c40")
    /\ UNCHANGED <<last_id, running_jobs, broadcasts, hub, sockets, whisper>>

Content40(t) == WfProgress(t, "c40", 40, "analyze")

Content70(t) == WfProgress(t, "c70", 70, "generate")

----------------------------------------------------------------------------
\* The shared analyzer and question generator stages

\* ContentAnalyzerAgent.run emits a milestone of its own
AnalyzerProgress(t, v) ==
    /\ threads[t].pc = "analyze"
    /\ v > threads[t].sub
    /\ jobs' = AgentUpdateJobProgress(Job(t), v)
    /\ threads' = [threads EXCEPT ![t].sub = v, ![t].lastp = v,
                                  ![t].bc = [type |-> "progress", progress |-> v]]
    /\ UNCHANGED <<last_id, running_jobs, broadcasts, hub, sockets, whisper>>

\* ContentAnalyzerAgent.run returns
AnalyzerDone(t) ==
    /\ threads[t].pc = "analyze"
    /\ jobs' = AnalyzerPersist(Job(t))
    /\ threads' = [threads EXCEPT ![t].pc = IF threads[t].kind = "video" THEN "generate" ELSE "c70",
                                  ![t].sub = 0]
    /\ UNCHANGED <<last_id, running_jobs, broadcasts, hub, sockets, whisper>>

\* ContentAnalyzerAgent.run raises
AnalyzerFails(t) ==
    /\ threads[t].pc = "analyze"
    /\ threads' = [threads EXCEPT ![t].pc = "wfail", ![t].err = "content too long", ![t].sub = 0]
    /\ UNCHANGED <<jobs, last_id, running_jobs, broadcasts, hub, sockets, whisper>>

\* QuestionGeneratorAgent.run emits a milestone of its own
GeneratorProgress(t, v) ==
    /\ threads[t].pc = "generate"
    /\ v > threads[t].sub
    /\ jobs' = AgentUpdateJobProgress(Job(t), v)
    /\ threads' = [threads EXCEPT ![t].sub = v, ![t].lastp = v,
                                  ![t].bc = [type |-> "progress", progress |-> v]]
    /\ UNCHANGED <<last_id, running_jobs, broadcasts, hub, sockets, whisper>>

\* QuestionGeneratorAgent.run returns
GeneratorDone(t) ==
    /\ threads[t].pc = "generate"
    /\ jobs' = GeneratorPersist(Job(t))
    /\ threads' = [threads EXCEPT ![t].pc = "complete", ![t].sub = 0]
    /\ UNCHANGED <<last_id, running_jobs, broadcasts, hub, sockets, whisper>>

\* QuestionGeneratorAgent.run raises
GeneratorFails(t) ==
    /\ threads[t].pc = "generate"
    /\ threads' = [threads EXCEPT ![t].pc = "wfail", ![t].err = "question generation failed",
                                  ![t].sub = 0]
    /\ UNCHANGED <<jobs, last_id, running_jobs, broadcasts, hub, sockets, whisper>>

----------------------------------------------------------------------------
\* broadcast_to_job looking up a job id that has no entry in its registry:
\* the lookup raises inside mark_job_completed / update_job_progress
Notify_KeyErrorWithoutSubscribers(t) ==
    /\ threads[t].bc # NoEvent
    /\ IF hub.job_subscriptions[Job(t)] = {}
       THEN /\ threads' = [threads EXCEPT ![t].bc = NoEvent, ![t].pc = "wfail",
                                          ![t].err = "KeyError"]
            /\ UNCHANGED <<jobs, last_id, running_jobs, broadcasts, hub, sockets, whisper>>
       ELSE /\ broadcasts' = Broadcast(Job(t), threads[t].bc.type, threads[t].bc.progress)
            /\ \E F \in SUBSET hub.job_subscriptions[Job(t)] :
                  hub' = BroadcastToJob(hub, Job(t), F)
            /\ threads' = [threads EXCEPT ![t].bc = NoEvent]
            /\ UNCHANGED <<jobs, last_id, running_jobs, sockets, whisper>>

\* "await websocket_manager.broadcast_to_job(job_id, websocket_data)" after
\* the commit of update_job_progress / mark_job_completed
Notify(t) ==
    /\ threads[t].bc # NoEvent
    /\ broadcasts' = Broadcast(Job(t), threads[t].bc.type, threads[t].bc.progress)
    /\ \E F \in SUBSET hub.job_subscriptions[Job(t)] :
          hub' = BroadcastToJob(hub, Job(t), F)
    /\ threads' = [threads EXCEPT ![t].bc = NoEvent]
    /\ UNCHANGED <<jobs, last_id, running_jobs, sockets, whisper>>

----------------------------------------------------------------------------
\* The terminal transitions of the workflow

\* mark_job_completed announcing the end with one more progress event
WfCompleted_ProgressEvent(t) ==
    /\ threads[t].pc = "complete"
    /\ jobs' = MarkJobCompleted(Job(t))
    /\ threads' = [threads EXCEPT ![t].pc = "discard", ![t].lastp = 100,
                                  ![t].marks = Marked(t),
                                  ![t].bc = [type |-> "progress", progress |-> 100]]
    /\ UNCHANGED <<last_id, running_jobs, broadcasts, hub, sockets, whisper>>

\* "await self.mark_job_completed(job_id)": the commit; the completion event
\* follows it
WfCompleted(t) ==
    /\ threads[t].pc = "complete"
    /\ jobs' = MarkJobCompleted(Job(t))
    /\ threads' = [threads EXCEPT ![t].pc = "discard", ![t].lastp = 100,
                                  ![t].marks = Marked(t),
                                  ![t].bc = [type |-> "completion", progress |-> 100]]
    /\ UNCHANGED <<last_id, running_jobs, broadcasts, hub, sockets, whisper>>

\* "except Exception as e: await self.mark_job_failed(job_id, str(e)); raise":
\* the exception leaves the workflow and process_*_background catches it
\* ("except Exception as e: logger.error(...)") on the way to its finally
WfFailed(t) ==
    /\ threads[t].pc = "wfail"
    /\ jobs' = MarkJobFailed(Job(t), threads[t].err)
    /\ threads' = [threads EXCEPT ![t].pc = "discard", ![t].marks = Marked(t)]
    /\ UNCHANGED <<last_id, running_jobs, broadcasts, hub, sockets, whisper>>

----------------------------------------------------------------------------
\* Endpoints of api/v1/endpoints/videos.py.  VideoJobRepository reads the
\* video rows; the id of a content row is unknown to it.

\* VideoJobRepository.get
VideoRow(j) == Exists(j) /\ jobs[j].kind = "video"

CanCreate == last_id + 1 \in JobIds /\ FreeThreads # {}

\* POST /process: "if existing_job:" fails and the handler creates a job
ProcessVideoCreates(u) == FindByUrl(u) = {}

\* POST /process: the job_id of the response
ProcessVideoJobId(u) ==
    IF ProcessVideoCreates(u) THEN last_id + 1 ELSE MostRecent(FindByUrl(u))

\* POST /process: return the existing job of the url, or create a job and
\* hand it to video_processor.process_video_background_sync
ProcessVideo(u) ==
    IF ~ProcessVideoCreates(u)
    THEN UNCHANGED vars
    ELSE /\ CanCreate
         /\ last_id' = last_id + 1
         /\ jobs' = [jobs EXCEPT ![last_id + 1] = NewVideoJob(u)]
         /\ threads' = Spawn(last_id + 1, "video")
         /\ UNCHANGED <<running_jobs, broadcasts, hub, sockets, whisper>>

\* GET /{job_id}/status: the HTTP status it answers with
GetJobStatusCode(j) == IF ~VideoRow(j) THEN 404 ELSE 200

\* GET /{job_id}/results, /summary, /transcript: the HTTP status they
\* answer with
GetJobResultsCode(j) ==
    IF ~VideoRow(j) THEN 404
    ELSE IF jobs[j].status # "completed" THEN 409
    ELSE 200

\* cancel_job with "failed" missing from the list of rejected states
CancelStatusCode_FailedNotRejected(j) ==
    IF ~VideoRow(j) THEN 500
    ELSE IF jobs[j].status \in {"completed", "cancelled"} THEN 400
    ELSE 200

\* POST /{job_id}/cancel: the HTTP status it answers with
CancelStatusCode(j) ==
    IF ~VideoRow(j) THEN 500                      \* job is None: AttributeError
    ELSE IF jobs[j].status \in TerminalForCancel THEN 400
    ELSE 200

\* POST /{job_id}/cancel: the store after the handler
CancelledStore(j) ==
    IF CancelStatusCode(j) = 200
    THEN [jobs EXCEPT ![j].status = "cancelled",
                      ![j].error_message = "Job cancelled by user"]
    ELSE jobs

\* POST /{job_id}/cancel
CancelJob(j) ==
    /\ jobs' = CancelledStore(j)
    /\ UNCHANGED <<last_id, running_jobs, threads, broadcasts, hub, sockets, whisper>>

\* POST /{job_id}/retry: the guards before the reset
RetryGuardCode(j) ==
    IF ~VideoRow(j) THEN 404
    ELSE IF jobs[j].status # "failed" THEN 400
    ELSE IF ~VideoResetOk(j) THEN 400
    ELSE 200

\* POST /{job_id}/retry: the HTTP status it answers with
RetryStatusCode(j) ==
    IF RetryGuardCode(j) # 200 THEN RetryGuardCode(j)
    ELSE IF HasProcessVideoAsync THEN 200
    ELSE 500                                      \* AttributeError in add_task(...)

\* POST /{job_id}/retry: the store after the handler
RetriedStore(j) ==
    IF RetryGuardCode(j) = 200
    THEN [jobs EXCEPT ![j] = VideoResetRow(jobs[j])]
    ELSE jobs

\* POST /{job_id}/retry: does the handler hand the job to the processor?
RetryLaunches(j) == RetryGuardCode(j) = 200 /\ HasProcessVideoAsync

\* POST /{job_id}/retry
RetryJob(j) ==
    /\ jobs' = RetriedStore(j)
    /\ IF RetryLaunches(j)
       THEN FreeThreads # {} /\ threads' = Spawn(j, "video")
       ELSE threads' = threads
    /\ UNCHANGED <<last_id, running_jobs, broadcasts, hub, sockets, whisper>>

\* DELETE /{job_id}: the HTTP status it answers with
DeleteStatusCode(j) == IF Exists(j) THEN 200 ELSE 404

\* DELETE /{job_id} (VideoJobRepository.delete_job, ContentJobRepository.delete_job)
DeleteJob(j) ==
    /\ jobs' = IF Exists(j) THEN [jobs EXCEPT ![j] = NoJob] ELSE jobs
    /\ UNCHANGED <<last_id, running_jobs, threads, broadcasts, hub, sockets, whisper>>

----------------------------------------------------------------------------
\* Content jobs: ContentJobRepository and ContentProcessorService

\* ContentJobRepository.create_job, then
\* content_processor.process_content_background_sync(job.id)
SubmitContent ==
    /\ CanCreate
    /\ last_id' = last_id + 1
    /\ jobs' = [jobs EXCEPT ![last_id + 1] = NewContentJob]
    /\ threads' = Spawn(last_id + 1, "content")
    /\ UNCHANGED <<running_jobs, broadcasts, hub, sockets, whisper>>

ContentRow(j) == Exists(j) /\ jobs[j].kind = "content"

\* ContentJobRepository.reset_job_for_retry(job_id): the store after the call
ContentRetriedStore(j) ==
    IF ContentRow(j) /\ ContentResetOk(j)
    THEN [jobs EXCEPT ![j] = ContentResetRow(jobs[j])]
    ELSE jobs

\* ContentJobRepository.reset_job_for_retry(job_id)
ContentRetry(j) ==
    /\ jobs' = ContentRetriedStore(j)
    /\ UNCHANGED <<last_id, running_jobs, threads, broadcasts, hub, sockets, whisper>>

\* process_video_background_sync / process_content_background_sync called
\* again with the id of an existing job
Resubmit(j) ==
    /\ Exists(j)
    /\ FreeThreads # {}
    /\ threads' = Spawn(j, jobs[j].kind)
    /\ UNCHANGED <<jobs, last_id, running_jobs, broadcasts, hub, sockets, whisper>>

----------------------------------------------------------------------------
\* Duplicate detection by file id (services/duplicate_detector.py).  None is
\* written 0: job ids start at 1.

\* a content job is created for the files F and handed to the processor
SubmitFiles(F) ==
    /\ CanCreate
    /\ last_id' = last_id + 1
    /\ jobs' = [jobs EXCEPT ![last_id + 1] = [NewContentJob EXCEPT !.file_ids = F]]
    /\ threads' = Spawn(last_id + 1, "content")
    /\ UNCHANGED <<running_jobs, broadcasts, hub, sockets, whisper>>

\* find_existing_job_by_file_id with a filter on the jobs that have not
\* completed yet
FindExistingJobByFileId_ActiveOnly(f) ==
    LET found == {j \in JobIds : /\ ContentRow(j)
                                 /\ jobs[j].status \in {"pending", "processing"}
                                 /\ f \in jobs[j].file_ids}
    IN  IF found = {} THEN 0 ELSE MostRecent(found)

\* ContentJobRepository.find_existing_job_by_file_id: the most recent content
\* job of status pending, processing or completed whose file_ids hold f
FindExistingJobByFileId(f) ==
    LET found == {j \in JobIds : /\ ContentRow(j)
                                 /\ jobs[j].status \in {"pending", "processing", "completed"}
                                 /\ f \in jobs[j].file_ids}
    IN  IF found = {} THEN 0 ELSE MostRecent(found)

\* DuplicateDetector.check_file_processing_status
CheckFileProcessingStatus(f) ==
    LET existing_job == FindExistingJobByFileId(f)
    IN  IF existing_job = 0
        THEN [job_id |-> 0, status |-> "pending",
              message |-> "File ready for processing"]
        ELSE IF jobs[existing_job].status = "pending"
        THEN [job_id |-> existing_job, status |-> "pending",
              message |-> "File processing already queued"]
        ELSE IF jobs[existing_job].status = "processing"
        THEN [job_id |-> existing_job, status |-> "processing",
              message |-> "File is currently being processed"]
        ELSE IF jobs[existing_job].status = "completed"
        THEN [job_id |-> existing_job, status |-> "completed",
              message |-> "File has already been processed successfully"]
        ELSE IF jobs[existing_job].status = "failed"
        THEN [job_id |-> 0, status |-> "pending",
              message |-> "Previous processing failed - file ready for retry"]
        ELSE [job_id |-> 0, status |-> "pending",
              message |-> "File ready for processing"]

\* DuplicateDetector.can_process_file
CanProcessFile(f) ==
    /\ CheckFileProcessingStatus(f).status \in {"pending"}
    /\ CheckFileProcessingStatus(f).job_id = 0

----------------------------------------------------------------------------
\* The websocket endpoints of api/v1/endpoints/websocket.py, serving
\* connection c

\* a client connects: "await websocket_manager.connect_user(websocket, user_id)"
WsConnect(c) ==
    /\ sockets[c] = "closed"
    /\ sockets' = [sockets EXCEPT ![c] = "open"]
    /\ hub' = ConnectUser(hub, c)
    /\ UNCHANGED <<jobs, last_id, running_jobs, threads, broadcasts, whisper>>

\* the job_id of the connection request or a "subscribe_job" message:
\* "await websocket_manager.subscribe_to_job(websocket, job_id, user_id)"
WsSubscribe(c, j) ==
    /\ sockets[c] = "open"
    /\ hub' = SubscribeToJob(hub, c, j)
    /\ UNCHANGED <<jobs, last_id, running_jobs, threads, broadcasts, sockets, whisper>>

\* the handler ends: "finally: await websocket_manager.disconnect_user(websocket)"
WsDisconnect(c) ==
    /\ sockets[c] = "open"
    /\ sockets' = [sockets EXCEPT ![c] = "closed"]
    /\ hub' = DisconnectUser(hub, c)
    /\ UNCHANGED <<jobs, last_id, running_jobs, threads, broadcasts, whisper>>

\* The same handlers statement by statement.  A connection is "connected"
\* between connect_user and the try block, "open" inside the try block, and
\* "aborted" when an exception has left the handler before the try block.

\* "await websocket_manager.connect_user(websocket, user_id)" (lines 24, 99)
WsAccept(c) ==
    /\ sockets[c] = "closed"
    /\ sockets' = [sockets EXCEPT ![c] = "connected"]
    /\ hub' = ConnectUser(hub, c)
    /\ UNCHANGED <<jobs, last_id, running_jobs, threads, broadcasts, whisper>>

\* websocket_user_endpoint without a job_id: "if job_id:" fails, the try
\* block is entered
WsEnter(c) ==
    /\ sockets[c] = "connected"
    /\ sockets' = [sockets EXCEPT ![c] = "open"]
    /\ UNCHANGED <<jobs, last_id, running_jobs, threads, broadcasts, hub, whisper>>

\* the initial subscribe_to_job (lines 28, 100) returns, the try block is
\* entered
WsInitialSubscribe(c, j) ==
    /\ sockets[c] = "connected"
    /\ sockets' = [sockets EXCEPT ![c] = "open"]
    /\ hub' = SubscribeToJob(hub, c, j)
    /\ UNCHANGED <<jobs, last_id, running_jobs, threads, broadcasts, whisper>>

\* the initial subscribe_to_job raises, before or after it has added the
\* connection to the job's subscribers: the call is above the try block, so
\* the exception leaves the handler and the finally clause does not run
WsInitialSubscribeFails(c, j) ==
    /\ sockets[c] = "connected"
    /\ sockets' = [sockets EXCEPT ![c] = "aborted"]
    /\ hub' \in {hub, SubscribeToJob(hub, c, j)}
    /\ UNCHANGED <<jobs, last_id, running_jobs, threads, broadcasts, whisper>>

----------------------------------------------------------------------------
ThreadStep(t) ==
    \/ Notify(t)
    \/ /\ threads[t].bc = NoEvent
       /\ \/ CheckRunning(t)
          \/ AddRunning(t)
          \/ WfStarted(t)
          \/ WfStartedFails(t)
          \/ Extract10(t)
          \/ ExtractData(t)
          \/ ExtractDataFails(t)
          \/ Extract30(t)
          \/ Extract40(t)
          \/ ExtractTranscript(t)
          \/ ExtractTranscriptFails(t)
          \/ Extract50(t)
          \/ ExtractFailed(t)
          \/ Content10(t)
          \/ ParseNoParser(t)
          \/ ParseFails(t)
          \/ \E hasTitle \in BOOLEAN : ParseContent(t, hasTitle)
          \/ Content40(t)
          \/ Content70(t)
          \/ \E v \in AnalyzerValues : AnalyzerProgress(t, v)
          \/ AnalyzerDone(t)
          \/ AnalyzerFails(t)
          \/ \E v \in GeneratorValues : GeneratorProgress(t, v)
          \/ GeneratorDone(t)
          \/ GeneratorFails(t)
          \/ WfCompleted(t)
          \/ WfFailed(t)
          \/ DiscardRunning(t)

Request ==
    \/ \E u \in Urls : ProcessVideo(u)
    \/ SubmitContent
    \/ \E j \in JobIds : CancelJob(j)
    \/ \E j \in JobIds : RetryJob(j)
    \/ \E j \in JobIds : DeleteJob(j)
    \/ \E j \in JobIds : ContentRetry(j)

\* The program as its endpoints drive it: every job is submitted once
Next ==
    \/ Request
    \/ \E t \in ThreadIds : ThreadStep(t)

Spec == Init /\ [][Next]_vars

\* The processor service with callers that submit an id again
NextSvc ==
    \/ Next
    \/ \E j \in JobIds : Resubmit(j)

SpecSvc == Init /\ [][NextSvc]_vars

\* The notification hub and its clients beside the run of the first video
\* job
NextHub ==
    \/ \E u \in Urls : last_id = 0 /\ ProcessVideo(u)
    \/ \E t \in ThreadIds : ThreadStep(t)
    \/ \E c \in Conns : WsConnect(c)
    \/ \E c \in Conns, j \in JobIds : WsSubscribe(c, j)
    \/ \E c \in Conns : WsDisconnect(c)

SpecHub == Init /\ [][NextHub]_vars

\* The processor service handed the id of the first content job again and
\* again, while earlier executions of it may still run
NextDup ==
    \/ last_id = 0 /\ SubmitContent
    \/ \E j \in JobIds : Resubmit(j)
    \/ \E t \in ThreadIds : ThreadStep(t)

SpecDup == Init /\ [][NextDup]_vars

\* Content jobs over files: each is created for some files, run once, and
\* may be reset after a failure or deleted
NextFiles ==
    \/ \E F \in SUBSET FileIds : F # {} /\ SubmitFiles(F)
    \/ \E j \in JobIds : ContentRetry(j)
    \/ \E j \in JobIds : DeleteJob(j)
    \/ \E t \in ThreadIds : ThreadStep(t)

SpecFiles == Init /\ [][NextFiles]_vars

\* The websocket handlers statement by statement, beside the run of the
\* first video job
NextWs ==
    \/ \E u \in Urls : last_id = 0 /\ ProcessVideo(u)
    \/ \E t \in ThreadIds : ThreadStep(t)
    \/ \E c \in Conns : WsAccept(c)
    \/ \E c \in Conns : WsEnter(c)
    \/ \E c \in Conns, j \in JobIds : WsInitialSubscribe(c, j)
    \/ \E c \in Conns, j \in JobIds : WsInitialSubscribeFails(c, j)
    \/ \E c \in Conns, j \in JobIds : WsSubscribe(c, j)
    \/ \E c \in Conns : WsDisconnect(c)

SpecWs == Init /\ [][NextWs]_vars

\* Two video jobs side by side: a store with room for one more job, the
\* executions of the first two jobs, and one client that connects and
\* subscribes to jobs
InitPair ==
    /\ jobs = [j \in 1..(MaxJobs + 1) |-> NoJob]
    /\ last_id = 0
    /\ running_jobs = {}
    /\ threads = [t \in ThreadIds |-> Unborn]
    /\ broadcasts = [j \in JobIds |-> [last |-> NoEvent, completions |-> 0]]
    /\ hub = EmptyHub
    /\ sockets = [c \in Conns |-> "closed"]
    /\ whisper = NotLoaded

NextPair ==
    \/ \E u \in Urls : last_id < 2 /\ ProcessVideo(u)
    \/ \E t \in ThreadIds : ThreadStep(t)
    \/ WsConnect(1)
    \/ \E j \in JobIds : WsSubscribe(1, j)

SpecPair == InitPair /\ [][NextPair]_vars

\* Two video jobs side by side on the shared VideoExtractorAgent, with the
\* threads interleaved inside load_whisper_model
NextWhisper ==
    \/ \E u \in Urls : last_id < 2 /\ ProcessVideo(u)
    \/ \E t \in ThreadIds : ThreadStep(t)
    \/ \E t \in ThreadIds : WhisperSeenNone(t)
    \/ \E t \in ThreadIds : WhisperLoaded(t)

SpecWhisper == InitPair /\ [][NextWhisper]_vars

----------------------------------------------------------------------------
\* Properties

Status(j) == jobs[j].status

\* the executions of job j that are inside the workflow call
InFlight(j) == {t \in ThreadIds : InWorkflow(t) /\ Job(t) = j}

\* C1: for every job id there are never two workflow executions of the same
\* job in flight at the same time, however the submissions interleave.
C1_AtMostOneExecutionInFlight ==
    \A j \in JobIds : Cardinality(InFlight(j)) <= 1

\* the edges of the job status state machine
StatusEdges ==
    {<<"pending", "processing">>, <<"processing", "completed">>,
     <<"processing", "failed">>, <<"failed", "pending">>,
     <<"pending", "cancelled">>, <<"processing", "cancelled">>}

\* C2: the persisted status of a job only ever changes along the edges of
\* the status state machine.
C2_StatusChangesAlongEdges ==
    [][\A j \in JobIds :
          (Exists(j) /\ Exists(j)' /\ Status(j)' # Status(j))
              => <<Status(j), Status(j)'>> \in StatusEdges]_vars

\* C3: once a job is stored as cancelled, no later write of an execution
\* changes its row: the row stays as the cancel left it until it is deleted.
C3_CancelIsAFence ==
    [][\A j \in JobIds :
          (Exists(j) /\ Status(j) = "cancelled" /\ Exists(j)')
              => jobs'[j] = jobs[j]]_vars

\* C4: while a job is stored as cancelled, no event is broadcast for it.
C4_NoEventAfterCancel ==
    [][\A j \in JobIds :
          (Exists(j) /\ Status(j) = "cancelled")
              => broadcasts'[j] = broadcasts[j]]_vars

\* C5: cancel_job on a completed, failed or cancelled job answers with an
\* error and leaves the store as it is; on a pending or processing job it
\* stores the status cancelled.
C5_CancelRejectedWhenTerminal ==
    \A j \in JobIds :
        VideoRow(j) =>
            IF Status(j) \in {"completed", "failed", "cancelled"}
            THEN CancelStatusCode(j) = 400 /\ CancelledStore(j) = jobs
            ELSE /\ Status(j) \in {"pending", "processing"}
                 /\ CancelStatusCode(j) = 200
                 /\ CancelledStore(j)[j].status = "cancelled"

\* a job that was cancelled while it was processing: cancel has acted, and
\* a second cancel now meets a cancelled job
C5_Witness ==
    \E j \in JobIds :
        /\ VideoRow(j)
        /\ Status(j) = "cancelled"
        /\ jobs[j].progress > 0
        /\ jobs[j].error_message = "Job cancelled by user"

\* C6: within one execution the progress values it writes never decrease.
C6_ProgressNeverDecreases ==
    [][\A t \in ThreadIds :
          (InWorkflow(t) /\ threads'[t].pc \in WorkflowPcs \cup {"discard"})
              => threads'[t].lastp >= threads[t].lastp]_vars

C8_RetryOnlyFromFailed ==
    \A j \in JobIds :
        ~(Exists(j) /\ Status(j) = "failed") =>
            /\ RetryStatusCode(j) \in {400, 404}
            /\ RetriedStore(j) = jobs
            /\ ~RetryLaunches(j)
            /\ ~VideoResetOk(j)
            /\ ~ContentResetOk(j)
            /\ ContentRetriedStore(j) = jobs

\* a video job that a retry has reset: it is pending, no thread runs it, and
\* a second retry now meets a job that is not failed
C8_Witness ==
    \E j \in JobIds :
        /\ VideoRow(j)
        /\ Status(j) = "pending"
        /\ \A t \in ThreadIds : Job(t) # j

\* the fields a retry is said to clear
ResultsCleared(r) ==
    /\ r.video_title = "null"
    /\ r.video_duration = "null"
    /\ r.transcript = "null"
    /\ r.summary = "null"
    /\ r.questions = "null"

\* C9: right after reset_job_for_retry has reset a failed job, the row is
\* pending with progress 0, no error_message, no completed_at, and the result
\* fields of the failed run are cleared.
C9_ResetClearsTheFailedRun ==
    [][\A j \in JobIds :
          (Exists(j) /\ Status(j) = "failed" /\ Exists(j)' /\ Status(j)' = "pending")
              => /\ jobs'[j].progress = 0
                 /\ jobs'[j].error_message = "null"
                 /\ jobs'[j].completed_at = "null"
                 /\ ResultsCleared(jobs'[j])]_vars

\* C10: whenever a retry resets a failed video job to pending, the same
\* request launches a new execution of the job.
C10_RetryLaunchesAnExecution ==
    [][\A j \in JobIds :
          (VideoRow(j) /\ Status(j) = "failed" /\ Exists(j)' /\ Status(j)' = "pending")
              => \E t \in ThreadIds :
                    /\ threads[t].pc = "unborn"
                    /\ threads'[t].pc = "check"
                    /\ threads'[t].job = j]_vars

\* C11: while a video job of a url is pending, processing or completed, a
\* process_video request with that url returns the id of that job, creates no
\* row and launches no execution; the url never has a second row.
C11_SubmissionIdempotentByUrl ==
    \A j \in JobIds :
        (VideoRow(j) /\ Status(j) \in {"pending", "processing", "completed"}) =>
            /\ ~ProcessVideoCreates(jobs[j].video_url)
            /\ ProcessVideoJobId(jobs[j].video_url) = j
            /\ FindByUrl(jobs[j].video_url) = {j}

\* a video job whose run has completed and ended: a request with its url now
\* meets the completed job
C11_Witness ==
    \E j \in JobIds :
        /\ VideoRow(j)
        /\ Status(j) = "completed"
        /\ \A t \in ThreadIds : Job(t) # j
        /\ ProcessVideoJobId(jobs[j].video_url) = j

\* C12: a thread that carries an exception inside the workflow is in an
\* exception handler, and the handler of process_video / process_content
\* stores the status failed, the stringified exception as error_message and
\* completed_at, then leaves the workflow with the same exception: no stage
\* is invoked again.
C12_FailureIsStoredAndReRaised ==
    [][\A t \in ThreadIds :
          /\ (threads'[t].err # "none" /\ threads'[t].pc \in WorkflowPcs)
                => threads'[t].pc \in {"xfail", "wfail"}
          /\ (threads[t].pc = "xfail" /\ threads'[t] # threads[t])
                => threads'[t].pc = "wfail" /\ threads'[t].err = threads[t].err
          /\ (threads[t].pc = "wfail" /\ threads'[t] # threads[t])
                => /\ threads[t].err # "none"
                   /\ threads'[t].pc = "discard"
                   /\ threads'[t].err = threads[t].err
                   /\ Exists(Job(t)) =>
                         /\ Exists(Job(t))'
                         /\ jobs'[Job(t)].status = "failed"
                         /\ jobs'[Job(t)].error_message = threads[t].err
                         /\ jobs'[Job(t)].completed_at = "set"]_vars

\* the analyzer stage raised "content too long": the job is failed with
\* that message and the exception has left the workflow
C12_Witness ==
    \E t \in ThreadIds :
        /\ threads[t].pc = "discard"
        /\ threads[t].err = "content too long"
        /\ Exists(Job(t))
        /\ Status(Job(t)) = "failed"
        /\ jobs[Job(t)].error_message = "content too long"
        /\ jobs[Job(t)].completed_at = "set"

\* the payload of the completion event
CompletionEvent == [type |-> "completion", progress |-> 100]

\* the row of j, if it is still stored, is in the completed state
StoredCompleted(j) ==
    Exists(j) =>
        /\ Status(j) = "completed"
        /\ jobs[j].progress = 100
        /\ jobs[j].completed_at = "set"

\* C13: a run whose stages all succeeded leaves the job completed with
\* progress 100 and completed_at set; exactly one completion event is
\* broadcast for the job, only after the completed state is committed, and
\* it stays the last event of the job.
C13_OneCompletionEventAtTheEnd ==
    \A j \in JobIds :
        /\ broadcasts[j].completions <= 1
        /\ broadcasts[j].completions = 1 =>
              broadcasts[j].last = CompletionEvent /\ StoredCompleted(j)
        /\ \A t \in ThreadIds :
              /\ (Job(t) = j /\ threads[t].bc = CompletionEvent) => StoredCompleted(j)
              /\ (Job(t) = j /\ threads[t].pc = "discard" /\ threads[t].err = "none"
                     /\ threads[t].bc = NoEvent)
                    => broadcasts[j].completions = 1 /\ StoredCompleted(j)

\* a run that succeeded has returned from the workflow: its job is stored
\* as completed and the completion event is the last event of the job
C13_Witness ==
    \E t \in ThreadIds :
        /\ threads[t].pc = "discard"
        /\ threads[t].err = "none"
        /\ threads[t].bc = NoEvent
        /\ Exists(Job(t))
        /\ Status(Job(t)) = "completed"
        /\ broadcasts[Job(t)].last = CompletionEvent

\* the executions of job j between their insertion into running_jobs and
\* the discard of their finally clause
Holding(j) ==
    {t \in ThreadIds : Job(t) = j /\ (InWorkflow(t) \/ threads[t].pc = "discard")}

\* C14: an id is in running_jobs only while an execution that inserted it
\* has not yet run its finally clause: once the executions of a job have
\* ended, is_job_running is false for it and get_running_jobs_count does
\* not count it.
C14_ActiveSetIsClearedAtTheEnd ==
    /\ \A j \in JobIds : IsJobRunning(j) => Holding(j) # {}
    /\ GetRunningJobsCount = Cardinality({j \in JobIds : IsJobRunning(j)})
    /\ GetRunningJobsCount <= Cardinality({j \in JobIds : Holding(j) # {}})

\* a job whose run raised and ended: no thread runs it and its id has left
\* running_jobs
C14_Witness ==
    \E j \in JobIds :
        /\ Exists(j)
        /\ Status(j) = "failed"
        /\ \A t \in ThreadIds : Job(t) # j
        /\ ~IsJobRunning(j)
        /\ GetRunningJobsCount = 0

\* C15: the step that submits a job only starts a thread, which has run
\* nothing of the pipeline when the submission returns; and a thread that
\* carries an exception changes nothing but its own position, the row of its
\* job and running_jobs, and ends without the exception.
C15_SubmissionIsFireAndForget ==
    [][\A t \in ThreadIds :
          /\ (threads[t].pc = "unborn" /\ threads'[t] # threads[t])
                => /\ threads'[t] = [Unborn EXCEPT !.pc = "check",
                                                   !.job = threads'[t].job,
                                                   !.kind = threads'[t].kind]
                   /\ jobs'[threads'[t].job] # NoJob
                   /\ running_jobs' = running_jobs
                   /\ broadcasts' = broadcasts
                   /\ \A u \in ThreadIds \ {t} : threads'[u] = threads[u]
          /\ (threads[t].err # "none" /\ threads'[t] # threads[t])
                => /\ \A u \in ThreadIds \ {t} : threads'[u] = threads[u]
                   /\ \A j \in JobIds \ {Job(t)} : jobs'[j] = jobs[j]
                   /\ last_id' = last_id
                   /\ broadcasts' = broadcasts
                   /\ running_jobs' \in {running_jobs, running_jobs \ {Job(t)}}
                   /\ threads'[t].pc \in {"wfail", "discard", "done"}
                   /\ threads'[t].pc = "done" => threads'[t].err = "none"]_vars

\* the question generator raised in a thread that a submission started:
\* the orchestrator has re-raised and the exception is caught inside the
\* thread, where only the stored status shows it
C15_Witness ==
    \E t \in ThreadIds :
        /\ threads[t].pc = "discard"
        /\ threads[t].err = "question generation failed"
        /\ Job(t) \in running_jobs
        /\ Exists(Job(t))
        /\ Status(Job(t)) = "failed"

\* C16: no step that a thread takes inside a stage sets the status of its job
\* to failed or writes its error_message: a stage only raises.
C16_StagesNeverWriteFailed ==
    [][\A t \in ThreadIds :
          (/\ threads[t].pc \in StagePcs
           /\ threads[t].bc = NoEvent
           /\ threads'[t] # threads[t]
           /\ Exists(Job(t)))
              => /\ jobs'[Job(t)].error_message = jobs[Job(t)].error_message
                 /\ jobs'[Job(t)].status = "failed" => Status(Job(t)) = "failed"]_vars

\* C17: an execution writes at most one terminal transition of its job, and
\* exactly one by the time it has left the workflow with the row still
\* stored: never completed and then failed, never failed twice.
C17_OneTerminalTransitionPerRun ==
    \A t \in ThreadIds :
        /\ threads[t].marks <= 1
        /\ (threads[t].pc = "discard" /\ Exists(Job(t))) => threads[t].marks = 1

\* the executions that are inside the workflow call
Executing == {t \in ThreadIds : InWorkflow(t)}

\* C18: the number of executions that run the workflow at the same time
\* never exceeds max_concurrent_jobs.
C18_AtMostMaxConcurrentJobs == Cardinality(Executing) <= MaxConcurrentJobs

\* connection c is in no registry of hub state h
Unregistered(h, c) ==
    /\ c \notin h.user_connections
    /\ \A j \in JobIds : c \notin h.job_subscriptions[j]

\* the registries of h and g agree on connection c
SameRegistration(h, g, c) ==
    /\ c \in h.user_connections <=> c \in g.user_connections
    /\ \A j \in JobIds : c \in h.job_subscriptions[j] <=> c \in g.job_subscriptions[j]

\* thread t hands its payload to broadcast_to_job in this step
Notifies(t) == threads[t].bc # NoEvent /\ threads'[t].bc = NoEvent

\* C19: a broadcast to job j reaches every subscriber of j whose send does
\* not fail; a subscriber whose send fails is removed from the registries
\* and the others are kept; the thread goes on without an exception and the
\* store is left as it is.
C19_BroadcastIsBestEffort ==
    [][\A t \in ThreadIds :
          Notifies(t) =>
              /\ hub'.job_subscriptions[Job(t)] \subseteq hub.job_subscriptions[Job(t)]
              /\ hub'.delivered = hub'.job_subscriptions[Job(t)]
              /\ \A c \in hub.job_subscriptions[Job(t)] \ hub'.job_subscriptions[Job(t)] :
                    Unregistered(hub', c)
              /\ \A c \in Conns :
                    (c \notin hub.job_subscriptions[Job(t)]
                        \/ c \in hub'.job_subscriptions[Job(t)])
                        => SameRegistration(hub, hub', c)
              /\ broadcasts'[Job(t)].last = threads[t].bc
              /\ threads'[t] = [threads[t] EXCEPT !.bc = NoEvent]
              /\ jobs' = jobs]_vars

\* the completion event of a successful run has reached one subscriber
\* while the send to another failed: that one is out of the registry with
\* its handler still open, and the job is stored as completed
C19_Witness ==
    \E j \in JobIds, c, d \in Conns :
        /\ c # d
        /\ broadcasts[j].last = CompletionEvent
        /\ hub.delivered = {c}
        /\ c \in hub.job_subscriptions[j]
        /\ sockets[d] = "open"
        /\ Unregistered(hub, d)
        /\ Exists(j)
        /\ Status(j) = "completed"

C21_BroadcastWithoutSubscribers ==
    [][\A t \in ThreadIds :
          (/\ threads[t].bc # NoEvent
           /\ threads'[t] # threads[t]
           /\ hub.job_subscriptions[Job(t)] = {})
              => /\ hub'.user_connections = hub.user_connections
                 /\ hub'.job_subscriptions = hub.job_subscriptions
                 /\ hub'.delivered = {}
                 /\ sockets' = sockets
                 /\ jobs' = jobs
                 /\ running_jobs' = running_jobs
                 /\ broadcasts'[Job(t)].last = threads[t].bc
                 /\ threads'[t] = [threads[t] EXCEPT !.bc = NoEvent]]_vars

\* the completion event of a job was broadcast to nobody while a client is
\* connected that never subscribed: the run has left the workflow and the
\* client is still registered
C21_Witness ==
    \E t \in ThreadIds, c \in Conns :
        /\ threads[t].pc = "discard"
        /\ threads[t].err = "none"
        /\ threads[t].bc = NoEvent
        /\ broadcasts[Job(t)].last = CompletionEvent
        /\ hub.delivered = {}
        /\ hub.job_subscriptions[Job(t)] = {}
        /\ c \in hub.user_connections
        /\ Status(Job(t)) = "completed"

\* C22: a request that names a job id without a row is answered with the
\* not-found status 404, whichever of status, results, summary, transcript,
\* cancel, retry and delete it is, and leaves the store as it is.
C22_MissingJobIsNotFound ==
    \A j \in JobIds :
        ~Exists(j) =>
            /\ GetJobStatusCode(j) = 404
            /\ GetJobResultsCode(j) = 404
            /\ CancelStatusCode(j) = 404
            /\ RetryStatusCode(j) = 404
            /\ DeleteStatusCode(j) = 404
            /\ CancelledStore(j) = jobs
            /\ RetriedStore(j) = jobs

\* C23: a thread that finds its job id in running_jobs ends at once: it
\* runs nothing of the workflow and leaves running_jobs, the store, the
\* events and the other threads as they are.
C23_EarlyReturnChangesNothing ==
    [][\A t \in ThreadIds :
          (/\ threads[t].pc = "check"
           /\ Job(t) \in running_jobs
           /\ threads'[t] # threads[t])
              => /\ threads'[t] = Finished
                 /\ running_jobs' = running_jobs
                 /\ jobs' = jobs
                 /\ broadcasts' = broadcasts
                 /\ \A u \in ThreadIds \ {t} : threads'[u] = threads[u]]_vars

\* a second submission of a job has returned early: its thread has ended
\* while no run of the job has reached a terminal transition, and the first
\* execution is in the workflow with the id still in running_jobs
C23_Witness ==
    \E t, u \in ThreadIds :
        /\ threads[t] = Finished
        /\ InWorkflow(u)
        /\ Job(u) \in running_jobs
        /\ Exists(Job(u))
        /\ jobs[Job(u)].completed_at = "null"
        /\ \A v \in ThreadIds \ {t, u} : threads[v].pc = "unborn"

\* the position of a thread in the order of the workflow: before the stages,
\* acquisition (extractor or parser), analyzer, question generator,
\* mark_job_completed, and the way out
StageRank(pc) ==
    IF pc \in {"unborn", "check", "add", "started"} THEN 0
    ELSE IF pc \in {"x10", "xdata", "x30", "x40", "xtrans", "xload", "x50", "xfail",
                     "c10", "cparse"} THEN 1
    ELSE IF pc \in {"c40", "analyze"} THEN 2
    ELSE IF pc \in {"c70", "generate"} THEN 3
    ELSE IF pc = "complete" THEN 4
    ELSE 5

\* C24: a run goes through acquisition, analyzer and question generator in
\* this order, one stage at a time and each entered only from the one before
\* it without an exception; after a stage has raised the run enters no stage
\* and does not reach mark_job_completed.
C24_StagesRunInOrder ==
    [][\A t \in ThreadIds :
          threads'[t] # threads[t] =>
              /\ StageRank(threads'[t].pc) >= StageRank(threads[t].pc)
              /\ StageRank(threads'[t].pc) \in 1..4 =>
                    /\ StageRank(threads'[t].pc) <= StageRank(threads[t].pc) + 1
                    /\ threads'[t].err # "none" => threads'[t].pc = "xfail"
              /\ threads[t].err # "none" =>
                    /\ threads'[t].pc \in {"wfail", "discard", "done"}
                    /\ threads'[t].marks > threads[t].marks =>
                          jobs'[Job(t)].status = "failed"
              /\ (threads'[t].marks > threads[t].marks
                     /\ jobs'[Job(t)].status = "completed")
                    => threads[t].pc = "complete" /\ threads[t].err = "none"]_vars

\* a content run whose parser was missing has left the workflow: the job is
\* failed, no later stage has stored a result and no completion event exists
C24_Witness ==
    \E t \in ThreadIds :
        /\ threads[t].pc = "discard"
        /\ threads[t].err = "No parser available for input type"
        /\ Exists(Job(t))
        /\ Status(Job(t)) = "failed"
        /\ jobs[Job(t)].summary = "null"
        /\ jobs[Job(t)].questions = "null"
        /\ broadcasts[Job(t)].completions = 0

\* row r after a failure transition with message m: only status,
\* error_message and completed_at differ from r
FailedFrom(r, m) ==
    [r EXCEPT !.status = "failed", !.error_message = m, !.completed_at = "set"]

\* C25: a failure transition changes only status, error_message and
\* completed_at of its job: progress keeps the last value written and the
\* result fields stored by earlier stages stay; no other row changes.  The
\* same holds for the repository's mark_failed.
C25_FailureKeepsProgressAndResults ==
    [][/\ \A t \in ThreadIds :
             (threads'[t].marks > threads[t].marks
                /\ jobs'[Job(t)].status = "failed")
               => /\ jobs'[Job(t)] =
                        FailedFrom(jobs[Job(t)], jobs'[Job(t)].error_message)
                  /\ \A j \in JobIds \ {Job(t)} : jobs'[j] = jobs[j]
       /\ \A j \in JobIds :
             Exists(j) =>
                RepoMarkFailed(j, "error") =
                    [jobs EXCEPT ![j] = FailedFrom(jobs[j], "error")]]_vars

\* the analyzer raised "content too long" after the acquisition stage had
\* stored the transcript: the job is failed, its progress is the last
\* milestone and the transcript is still there
C25_Witness ==
    \E t \in ThreadIds :
        /\ threads[t].pc = "discard"
        /\ threads[t].err = "content too long"
        /\ Exists(Job(t))
        /\ Status(Job(t)) = "failed"
        /\ jobs[Job(t)].progress = threads[t].lastp
        /\ jobs[Job(t)].progress >= 40
        /\ jobs[Job(t)].transcript = "set"

\* the progress events of the extraction stage, each with the event that
\* precedes it (-1: no event yet)
ExtractionEvents == {<<-1, 10>>, <<10, 30>>, <<30, 40>>, <<40, 50>>}

C27_ErrorMessageOnlyOnFailed ==
    \A j \in JobIds :
        (Exists(j) /\ jobs[j].error_message # "null") => Status(j) = "failed"

\* C28: in every reachable state completed_at is null while a job is
\* pending or processing and set while it is completed or failed, and no
\* execution has written completed_at more than once.
C28_CompletedAtSetOnceAtTheEnd ==
    /\ \A j \in JobIds :
          Exists(j) =>
              /\ Status(j) \in {"pending", "processing"}
                    => jobs[j].completed_at = "null"
              /\ Status(j) \in {"completed", "failed"}
                    => jobs[j].completed_at = "set"
    /\ \A t \in ThreadIds : threads[t].marks <= 1

\* the content jobs that hold file f and are pending, processing or completed
Blocking(f) ==
    {j \in JobIds : /\ ContentRow(j)
                    /\ f \in jobs[j].file_ids
                    /\ Status(j) \in {"pending", "processing", "completed"}}

ExtractorPcs == {"xdata", "x30", "x40", "xtrans", "xload", "x50", "xfail"}

\* C29: the temporary directory of the extraction stage exists only while
\* the stage runs, whether it returns or raises, and the data an execution
\* carries on to the later stages names the directory only while the
\* directory exists.
C29_TempDirReleasedAndNotHandedOn ==
    \A t \in ThreadIds :
        /\ threads[t].tmp => threads[t].pc \in ExtractorPcs
        /\ threads[t].data_temp_dir => threads[t].tmp

\* C31: in every reachable state is_job_running(j) is true exactly for the
\* jobs that have an execution between its insertion into running_jobs and
\* the end of its run (its finally clause included), a job with an
\* execution inside the workflow call is always reported as running, and
\* get_running_jobs_count is the number of such jobs.
C31_ActiveSetMirrorsExecutions ==
    /\ \A j \in JobIds :
          /\ InFlight(j) # {} => IsJobRunning(j)
          /\ IsJobRunning(j) <=> Holding(j) # {}
    /\ GetRunningJobsCount = Cardinality({j \in JobIds : Holding(j) # {}})

\* C32: a step of an execution whose job has been deleted leaves the store
\* as it is, the job stays absent, and the step broadcasts no completion
\* event for the job.
C32_DeletedJobIsNeverWrittenOrAnnounced ==
    [][\A t \in ThreadIds :
          (/\ threads'[t] # threads[t]
           /\ threads[t].pc \notin {"unborn", "done"}
           /\ ~Exists(Job(t)))
              => /\ jobs' = jobs
                 /\ broadcasts'[Job(t)].completions = broadcasts[Job(t)].completions
                 /\ ~(threads[t].bc.type = "completion"
                        /\ broadcasts'[Job(t)] # broadcasts[Job(t)])]_vars

\* C33: a connection whose handler has ended, by its finally clause or by
\* an exception, is in no registry of the hub: not among the user
\* connections and not among the subscribers of any job.
C33_EndedHandlerLeavesNoConnection ==
    \A c \in Conns :
        sockets[c] \in {"closed", "aborted"} => Unregistered(hub, c)

\* the status an event of this type reports
EventStatus(type) == IF type = "completion" THEN "completed" ELSE "processing"

\* C34: an event is broadcast only after the commit that stored it: when an
\* execution has committed and is about to broadcast an event, the job is
\* stored with the progress and the status the event reports, and the
\* broadcast then sends that event and writes nothing to the store.
C34_CommitPrecedesBroadcast ==
    [][\A t \in ThreadIds :
          /\ (threads[t].bc = NoEvent /\ threads'[t].bc # NoEvent)
                => /\ jobs'[Job(t)] # NoJob
                   /\ jobs'[Job(t)].progress = threads'[t].bc.progress
                   /\ jobs'[Job(t)].status = EventStatus(threads'[t].bc.type)
          /\ Notifies(t)
                => /\ broadcasts'[Job(t)].last = threads[t].bc
                   /\ jobs' = jobs
          /\ (~Notifies(t) /\ threads[t].job # 0)
                => broadcasts'[Job(t)] = broadcasts[Job(t)]]_vars

\* thread t, an execution of a job, takes a step
Steps(t) == threads[t].job # 0 /\ threads'[t] # threads[t]

\* the step leaves the record, the events and the active-set membership of
\* job b as they are
SameJob(b) ==
    /\ jobs'[b] = jobs[b]
    /\ broadcasts'[b] = broadcasts[b]
    /\ (b \in running_jobs') <=> (b \in running_jobs)

C36_WhisperModelLoadedAtMostOnce ==
    /\ whisper.loads <= 1
    /\ whisper.model = whisper.loads

====
